---- MODULE Spec2Model ----
(***************************************************************************)
(* vpath: VirtualPath<M> with its validated components Dirname, Filename   *)
(* and AbsolutePath.                                                       *)
(*                                                                         *)
(* A path (PathBuf / Path / OsStr) is the sequence of its characters, each *)
(* a one-character string; "/" is the separator (Unix host).  The          *)
(* operators of the first section compute what the std::path calls made by *)
(* the crate compute on such a sequence: components(), is_absolute(),      *)
(* push(), strip_prefix(), file_name(), file_stem(), extension(),          *)
(* set_extension(), set_file_name().                                       *)
(***************************************************************************)
EXTENDS Integers, Sequences, FiniteSets, TLC

(***************************************************************************)
(* Bounds of the model.                                                    *)
(***************************************************************************)
\* longest relative path (in characters) an operation may build
MaxLen == 5
\* longest relative path of a program with two bindings
MaxRebaseLen == 3
\* longest input (in characters) given to a component constructor
MaxInput == 3

Sep == "/"
Dot == "."

(***************************************************************************)
(* std::path on character sequences                                        *)
(***************************************************************************)

\* Path::has_root / Path::is_absolute on a Unix host: the first byte is "/"
IsAbsolute(p) == Len(p) > 0 /\ p[1] = Sep

\* the pieces between separators, as index spans [lo, hi] (hi = lo - 1 for
\* an empty piece), in order
RECURSIVE Scan(_, _, _, _)
Scan(p, i, start, acc) ==
    IF i > Len(p) THEN Append(acc, [lo |-> start, hi |-> Len(p)])
    ELSE IF p[i] = Sep THEN Scan(p, i + 1, i + 1, Append(acc, [lo |-> start, hi |-> i - 1]))
    ELSE Scan(p, i + 1, start, acc)

Pieces(p) == IF Len(p) = 0 THEN <<>> ELSE Scan(p, 1, 1, <<>>)

\* one piece as a component, or the kind "Skip" for what components() drops:
\* empty pieces and "." anywhere but at the very start of a rootless path
PieceComponent(p, sp, first) ==
    LET s == SubSeq(p, sp.lo, sp.hi) IN
    IF s = <<>> THEN [kind |-> "Skip", s |-> <<>>, lo |-> sp.lo, hi |-> sp.hi]
    ELSE IF s = <<Dot>> THEN
        IF first /\ ~IsAbsolute(p)
        THEN [kind |-> "CurDir", s |-> s, lo |-> sp.lo, hi |-> sp.hi]
        ELSE [kind |-> "Skip", s |-> <<>>, lo |-> sp.lo, hi |-> sp.hi]
    ELSE IF s = <<Dot, Dot>> THEN [kind |-> "ParentDir", s |-> s, lo |-> sp.lo, hi |-> sp.hi]
    ELSE [kind |-> "Normal", s |-> s, lo |-> sp.lo, hi |-> sp.hi]

\* Path::components(): RootDir for a leading "/", then the pieces kept
Components(p) ==
    LET ps == Pieces(p)
        cs == [i \in 1..Len(ps) |-> PieceComponent(p, ps[i], i = 1)]
        kept == SelectSeq(cs, LAMBDA c : c.kind # "Skip")
    IN  IF IsAbsolute(p)
        THEN <<[kind |-> "RootDir", s |-> <<Sep>>, lo |-> 1, hi |-> 1]>> \o kept
        ELSE kept

\* Component equality (PartialEq): same kind and same text
SameComponent(a, b) == a.kind = b.kind /\ a.s = b.s

\* PathBuf::push: an absolute argument replaces the buffer; otherwise a
\* separator is added when the buffer is non-empty and does not end in one
Push(buf, p) ==
    LET need_sep == Len(buf) > 0 /\ buf[Len(buf)] # Sep IN
    IF IsAbsolute(p) THEN p
    ELSE IF need_sep THEN buf \o <<Sep>> \o p
    ELSE buf \o p

\* Path::strip_prefix: iter_after over the components, then as_path() of
\* what remains (leading and trailing separators and "." trimmed)
StripPrefix(p, prefix) ==
    LET cs == Components(p)
        ps == Components(prefix)
        k == Len(ps)
    IN  IF k <= Len(cs) /\ \A i \in 1..k : SameComponent(cs[i], ps[i])
        THEN [ok |-> TRUE,
              path |-> IF Len(cs) > k THEN SubSeq(p, cs[k + 1].lo, cs[Len(cs)].hi) ELSE <<>>]
        ELSE [ok |-> FALSE, path |-> <<>>]

\* Path::file_name: the last component when it is a normal one
FileName(p) ==
    LET cs == Components(p) IN
    IF Len(cs) > 0 /\ cs[Len(cs)].kind = "Normal"
    THEN [some |-> TRUE, s |-> cs[Len(cs)].s, lo |-> cs[Len(cs)].lo]
    ELSE [some |-> FALSE, s |-> <<>>, lo |-> 0]

\* position of the last "." of a name, 0 when it has none
LastDot(s) ==
    LET dots == {i \in 1..Len(s) : s[i] = Dot} IN
    IF dots = {} THEN 0 ELSE CHOOSE i \in dots : \A j \in dots : j <= i

\* rsplit_file_at_dot: (before, after) the last dot; a name whose only dot is
\* its first character has no extension
SplitAtDot(s) ==
    LET d == LastDot(s) IN
    IF d = 0 THEN [before |-> [some |-> FALSE, s |-> <<>>], after |-> [some |-> TRUE, s |-> s]]
    ELSE IF d = 1 THEN [before |-> [some |-> TRUE, s |-> s], after |-> [some |-> FALSE, s |-> <<>>]]
    ELSE [before |-> [some |-> TRUE, s |-> SubSeq(s, 1, d - 1)],
          after |-> [some |-> TRUE, s |-> SubSeq(s, d + 1, Len(s))]]

None == [some |-> FALSE, s |-> <<>>]

\* Path::file_stem: before.or(after)
FileStem(p) ==
    LET f == FileName(p) IN
    IF ~f.some THEN None
    ELSE LET sp == SplitAtDot(f.s) IN IF sp.before.some THEN sp.before ELSE sp.after

\* Path::extension: before.and(after)
Extension(p) ==
    LET f == FileName(p) IN
    IF ~f.some THEN None
    ELSE LET sp == SplitAtDot(f.s) IN IF sp.before.some THEN sp.after ELSE None

\* PathBuf::set_extension: nothing without a file stem; otherwise truncate
\* right after the stem and add "." and the extension when it is non-empty
SetExtension(p, ext) ==
    LET f == FileName(p)
        stem == FileStem(p)
    IN  IF ~stem.some THEN p
        ELSE LET kept == SubSeq(p, 1, f.lo + Len(stem.s) - 1) IN
             IF ext = <<>> THEN kept ELSE kept \o <<Dot>> \o ext

\* Path::parent: the path up to the end of the component before the last
Parent(p) ==
    LET cs == Components(p) IN
    IF Len(cs) = 0 \/ cs[Len(cs)].kind = "RootDir" THEN None
    ELSE [some |-> TRUE, s |-> IF Len(cs) = 1 THEN <<>> ELSE SubSeq(p, 1, cs[Len(cs) - 1].hi)]

\* PathBuf::set_file_name: pop the file name when there is one, then push
SetFileName(p, name) ==
    IF FileName(p).some THEN Push(Parent(p).s, name) ELSE Push(p, name)


(***************************************************************************)
(* Inputs the operations are called with                                   *)
(***************************************************************************)

\* "", "a", "a/b", "/a", "..", ".", "a.b", "a/": arguments of the raw
\* operations and sources of the validated components
Segments ==
    { <<>>, <<"a">>, <<"a", "/", "b">>, <<"/", "a">>, <<".", ".">>, <<".">>,
      <<"a", ".", "b">>, <<"a", "/">> }

\* "", "b", "a.b": extensions (none holds a separator)
Extensions == { <<>>, <<"b">>, <<"a", ".", "b">> }

\* "b", "", "a/b", "/a": names given to set_file_name
FileNames == { <<"b">>, <<>>, <<"a", "/", "b">>, <<"/", "a">> }

\* "", "a", "a/b", "b", "/a", ".": prefixes given to strip_prefix
Prefixes == { <<>>, <<"a">>, <<"a", "/", "b">>, <<"b">>, <<"/", "a">>, <<".">> }

\* "", "a", "/", "/a", "/b": sources of the absolute paths
AbsInputs == { <<>>, <<"a">>, <<"/">>, <<"/", "a">>, <<"/", "b">> }

\* every string of at most n characters over "/", "." and "a"
RECURSIVE Strings(_)
Strings(n) ==
    IF n = 0 THEN { <<>> }
    ELSE Strings(n - 1)
         \cup { Append(s, c) : s \in { t \in Strings(n - 1) : Len(t) = n - 1 }, c \in { Sep, Dot, "a" } }

(***************************************************************************)
(* The validated components                                                *)
(***************************************************************************)

Ok(name) == [ok |-> TRUE, err |-> "", name |-> name]
Err(e) == [ok |-> FALSE, err |-> e, name |-> <<>>]

\* (mutation: any non-empty path accepted)
AbsolutePathNonEmpty(path) ==
    IF Len(path) > 0 THEN Ok(path) ELSE Err("AbsolutePathError")

\* (mutation: every path accepted)
AbsolutePathAny(path) == Ok(path)

\* impl TryFrom<&Path> for AbsolutePath (the other conversions forward to it)
AbsolutePathTryFrom(path) ==
    IF IsAbsolute(path) THEN Ok(path) ELSE Err("AbsolutePathError")

\* (mutation: the check for an empty path left out)
DirnameUnchecked(path) ==
    IF ~IsAbsolute(path) THEN Ok(path) ELSE Err("Absolute")

\* impl TryFrom<&Path> for Dirname (TryFrom<PathBuf>, TryFrom<&PathBuf> forward to it)
DirnameTryFromPath(path) ==
    IF Len(Components(path)) = 0 THEN Err("Empty")
    ELSE IF ~IsAbsolute(path) THEN Ok(path)
    ELSE Err("Absolute")

\* impl TryFrom<&str> for Dirname
DirnameTryFromStr(path) ==
    IF Len(path) = 0 THEN Err("Empty") ELSE DirnameTryFromPath(path)

\* impl TryFrom<&Path> for Filename (TryFrom<PathBuf>, TryFrom<&PathBuf> forward to it)
FilenameTryFromPath(path) ==
    IF Len(Components(path)) = 0 THEN Err("Empty")
    ELSE IF IsAbsolute(path) THEN Err("HasRoot")
    ELSE Ok(path)

\* (mutation: the check for a root left out)
FilenameStrUnrooted(path) ==
    IF Len(path) = 0 THEN Err("Empty") ELSE Ok(path)

\* impl TryFrom<&str> for Filename
FilenameTryFromStr(path) ==
    IF Len(path) = 0 THEN Err("Empty")
    ELSE IF IsAbsolute(path) THEN Err("HasRoot")
    ELSE Ok(path)

\* impl TryFrom<&PathBuf>: Self::try_from(path.as_path())
DirnameTryFromPathBufRef(path) == DirnameTryFromPath(path)
FilenameTryFromPathBufRef(path) == FilenameTryFromPath(path)

\* impl TryFrom<PathBuf>: Self::try_from(&path)
DirnameTryFromPathBuf(path) == DirnameTryFromPathBufRef(path)
FilenameTryFromPathBuf(path) == FilenameTryFromPathBufRef(path)

\* the values of each component type that can be made from the sources S
DirnamesOf(S) ==
    { DirnameTryFromPath(s).name : s \in { t \in S : DirnameTryFromPath(t).ok } }
        \cup { DirnameTryFromStr(s).name : s \in { t \in S : DirnameTryFromStr(t).ok } }
FilenamesOf(S) ==
    { FilenameTryFromPath(s).name : s \in { t \in S : FilenameTryFromPath(t).ok } }
        \cup { FilenameTryFromStr(s).name : s \in { t \in S : FilenameTryFromStr(t).ok } }
AbsolutePathsOf(S) ==
    { AbsolutePathTryFrom(s).name : s \in { t \in S : AbsolutePathTryFrom(t).ok } }

(***************************************************************************)
(* VirtualPath<M>: base, path and the marker type M                        *)
(***************************************************************************)

DirMarker == "DirMarker"
FileMarker == "FileMarker"

\* impl Default for VirtualPath<DirMarker>
Default == [base |-> <<>>, path |-> <<>>, marker |-> DirMarker]

\* a binding that holds no value (never bound, or moved out of)
NoValue == [base |-> <<>>, path |-> <<>>, marker |-> "moved"]

\* (mutation: the two sides joined the other way round)
to_path_buf_swapped(v) == Push(v.path, v.base)

to_path_buf(v) == Push(v.base, v.path)

\* (mutation: a base already set is kept)
with_base_once(v, base) ==
    [base |-> IF v.base = <<>> THEN base ELSE v.base, path |-> v.path, marker |-> v.marker]

\* (mutation: the path joined onto the old base when the base is replaced)
with_base_joined(v, base) == [base |-> base, path |-> to_path_buf(v), marker |-> v.marker]
with_base(v, base) == [base |-> base, path |-> v.path, marker |-> v.marker]

\* (mutation: a base counts only when it ends in a name)
has_base_named(v) == FileName(v.base).some
has_base(v) == Len(Components(v.base)) > 0

\* (mutation: the result tagged as a Directory)
strip_prefix_dir(v, prefix) ==
    LET stripped == StripPrefix(v.path, prefix) IN
    IF stripped.ok
    THEN [ok |-> TRUE, value |-> [base |-> v.base, path |-> stripped.path, marker |-> DirMarker]]
    ELSE [ok |-> FALSE, value |-> NoValue]

\* (mutation: the result built without the base)
strip_prefix_unbased(v, prefix) ==
    LET stripped == StripPrefix(v.path, prefix) IN
    IF stripped.ok
    THEN [ok |-> TRUE, value |-> [base |-> <<>>, path |-> stripped.path, marker |-> v.marker]]
    ELSE [ok |-> FALSE, value |-> NoValue]

\* (mutation: the prefix matched against the joined path)
strip_prefix_joined(v, prefix) ==
    LET stripped == StripPrefix(to_path_buf(v), prefix) IN
    IF stripped.ok
    THEN [ok |-> TRUE, value |-> [base |-> v.base, path |-> stripped.path, marker |-> v.marker]]
    ELSE [ok |-> FALSE, value |-> NoValue]

strip_prefix(v, prefix) ==
    LET stripped == StripPrefix(v.path, prefix) IN
    IF stripped.ok
    THEN [ok |-> TRUE, value |-> [base |-> v.base, path |-> stripped.path, marker |-> v.marker]]
    ELSE [ok |-> FALSE, value |-> NoValue]

parent(v) == Parent(to_path_buf(v))

\* (mutation: the segment appended as text)
push_dir_raw_appended(v, dir) == [v EXCEPT !.path = @ \o dir]
push_dir_raw(v, dir) == [v EXCEPT !.path = Push(@, dir)]

\* (mutation: the new directory put in front)
push_dir_front(v, dir) == [v EXCEPT !.path = Push(dir, @)]

push_dir(v, dir) == [v EXCEPT !.path = Push(@, dir)]

with_dir_raw(v, dir) == [base |-> v.base, path |-> Push(v.path, dir), marker |-> DirMarker]

with_dir(v, dir) == with_dir_raw(v, dir)

\* (mutation: the file value built without the base)
with_file_raw_fresh(v, file) == [base |-> <<>>, path |-> Push(v.path, file), marker |-> FileMarker]
with_file_raw(v, file) == [base |-> v.base, path |-> Push(v.path, file), marker |-> FileMarker]

with_file(v, file) == with_file_raw(v, file)

extension(v) == Extension(v.path)

\* self.path.file_stem().unwrap(): panics on None
file_stem(v) ==
    LET stem == FileStem(v.path) IN
    IF stem.some THEN [tag |-> "OsStr", val |-> stem.s] ELSE [tag |-> "panic", val |-> <<>>]

\* (mutation: the extension appended to the one there is)
set_extension_appended(v, ext) == [v EXCEPT !.path = @ \o <<Dot>> \o ext]
set_extension(v, ext) == [v EXCEPT !.path = SetExtension(@, ext)]

set_file_name(v, file_name) == [v EXCEPT !.path = SetFileName(@, file_name)]

\* (mutation: the extension removed and the new one not added)
with_extension_cleared(v, ext) == [v EXCEPT !.path = SetExtension(@, <<>>)]

with_extension(v, ext) == [v EXCEPT !.path = SetExtension(@, ext)]

(***************************************************************************)
(* State: the caller's bindings, how each was built, the last call made    *)
(***************************************************************************)

VARIABLES
    vals,   \* vals[i]: the VirtualPath bound to i, or NoValue
    hist,   \* hist[i]: the validated segments pushed onto the default value to
            \* build vals[i], while it was built by nothing else; whether
            \* with_base took part in building it
    last    \* the last call: op, receiver, argument, receiver before, result

vars == <<vals, hist, last>>

Bindings == {1, 2}

Fresh == [pure |-> TRUE, segs |-> <<>>, based |-> FALSE]
Mixed == [pure |-> FALSE, segs |-> <<>>, based |-> FALSE]
Edited(h) == [h EXCEPT !.pure = FALSE, !.segs = <<>>]
Rebased(h) == [Edited(h) EXCEPT !.based = TRUE]
Pushed(h, seg) == IF h.pure THEN [h EXCEPT !.segs = Append(h.segs, seg)] ELSE Edited(h)

NoResult == [tag |-> "none", val |-> <<>>]

Call(op, slot, dst, arg, pre, tag, val) ==
    [op |-> op, slot |-> slot, dst |-> dst, arg |-> arg, pre |-> pre,
     out |-> [tag |-> tag, val |-> val], again |-> NoResult]

\* let v1 = VirtualPath::default();
Init ==
    /\ vals = [i \in Bindings |-> IF i = 1 THEN Default ELSE NoValue]
    /\ hist = [i \in Bindings |-> IF i = 1 THEN Fresh ELSE Mixed]
    /\ last = Call("default", 0, 1, <<>>, NoValue, "value", <<>>)

\* a panic aborts the program
Running == last.out.tag # "panic"

Bound(i) == vals[i] # NoValue
IsDir(i) == vals[i].marker = DirMarker
IsFile(i) == vals[i].marker = FileMarker
Fits(v) == Len(v.path) <= MaxLen

\* let vi = VirtualPath::default();
NewDefault(i) ==
    /\ Running /\ ~Bound(i)
    /\ vals' = [vals EXCEPT ![i] = Default]
    /\ hist' = [hist EXCEPT ![i] = Fresh]
    /\ last' = Call("default", 0, i, <<>>, NoValue, "value", <<>>)

\* a component constructor call: only its result is kept
Construct(op, s, r) ==
    /\ last' = Call(op, 0, 0, s, NoValue, IF r.ok THEN "Ok" ELSE r.err, r.name)
    /\ UNCHANGED <<vals, hist>>

DirnameFromPath(s) == Construct("Dirname::try_from(&Path)", s, DirnameTryFromPath(s))
DirnameFromStr(s) == Construct("Dirname::try_from(&str)", s, DirnameTryFromStr(s))
FilenameFromPath(s) == Construct("Filename::try_from(&Path)", s, FilenameTryFromPath(s))
FilenameFromStr(s) == Construct("Filename::try_from(&str)", s, FilenameTryFromStr(s))
DirnameFromPathBuf(s) == Construct("Dirname::try_from(PathBuf)", s, DirnameTryFromPathBuf(s))
DirnameFromPathBufRef(s) == Construct("Dirname::try_from(&PathBuf)", s, DirnameTryFromPathBufRef(s))
FilenameFromPathBuf(s) == Construct("Filename::try_from(PathBuf)", s, FilenameTryFromPathBuf(s))
FilenameFromPathBufRef(s) == Construct("Filename::try_from(&PathBuf)", s, FilenameTryFromPathBufRef(s))
AbsolutePathFrom(s) == Construct("AbsolutePath::try_from", s, AbsolutePathTryFrom(s))

\* accessors taking &self: a result, no change; `again` keeps the result of
\* the call before when that was the same call on the same value
Read(op, i, tag, val) ==
    /\ Running /\ Bound(i)
    /\ last' = [Call(op, i, 0, <<>>, vals[i], tag, val) EXCEPT
                    !.again = IF last.op = op /\ last.slot = i THEN last.out ELSE NoResult]
    /\ UNCHANGED <<vals, hist>>

ToPathBuf(i) == Read("to_path_buf", i, "PathBuf", to_path_buf(vals[i]))

HasBase(i) == Read("has_base", i, IF has_base(vals[i]) THEN "true" ELSE "false", <<>>)

ParentOf(i) ==
    LET r == parent(vals[i]) IN Read("parent", i, IF r.some THEN "Some" ELSE "None", r.s)

\* operations whose result is bound to dst
Bind(op, i, dst, arg, v, h) ==
    /\ Running /\ Bound(i) /\ Fits(v)
    /\ vals' = [vals EXCEPT ![dst] = v]
    /\ hist' = [hist EXCEPT ![dst] = h]
    /\ last' = Call(op, i, dst, arg, vals[i], "value", <<>>)

\* let vj = vi.with_base(&a);   (vi is only borrowed)
WithBase(i, j, a) == Bind("with_base", i, j, a, with_base(vals[i], a), Rebased(hist[i]))

\* vi.strip_prefix(p): vi is moved; on Err nothing comes back
StripPrefixOf(i, p) ==
    LET r == strip_prefix(vals[i], p) IN
    /\ Running /\ Bound(i)
    /\ vals' = [vals EXCEPT ![i] = r.value]
    /\ hist' = [hist EXCEPT ![i] = IF r.ok THEN Edited(hist[i]) ELSE Mixed]
    /\ last' = Call("strip_prefix", i, IF r.ok THEN i ELSE 0, p, vals[i],
                    IF r.ok THEN "Ok" ELSE "StripPrefixError", <<>>)

PushDirRaw(i, s) == IsDir(i) /\ Bind("push_dir_raw", i, i, s, push_dir_raw(vals[i], s), Edited(hist[i]))
PushDir(i, d) == IsDir(i) /\ Bind("push_dir", i, i, d, push_dir(vals[i], d), Pushed(hist[i], d))
WithDirRaw(i, s) == IsDir(i) /\ Bind("with_dir_raw", i, i, s, with_dir_raw(vals[i], s), Edited(hist[i]))
WithDir(i, d) == IsDir(i) /\ Bind("with_dir", i, i, d, with_dir(vals[i], d), Pushed(hist[i], d))
WithFileRaw(i, s) == IsDir(i) /\ Bind("with_file_raw", i, i, s, with_file_raw(vals[i], s), Edited(hist[i]))
WithFile(i, f) == IsDir(i) /\ Bind("with_file", i, i, f, with_file(vals[i], f), Pushed(hist[i], f))

ExtensionOf(i) ==
    /\ IsFile(i)
    /\ LET r == extension(vals[i]) IN Read("extension", i, IF r.some THEN "Some" ELSE "None", r.s)

FileStemOf(i) ==
    /\ IsFile(i)
    /\ LET r == file_stem(vals[i]) IN Read("file_stem", i, r.tag, r.val)

SetExtensionOf(i, e) == IsFile(i) /\ Bind("set_extension", i, i, e, set_extension(vals[i], e), Edited(hist[i]))
SetFileNameOf(i, n) == IsFile(i) /\ Bind("set_file_name", i, i, n, set_file_name(vals[i], n), Edited(hist[i]))
WithExtension(i, e) == IsFile(i) /\ Bind("with_extension", i, i, e, with_extension(vals[i], e), Edited(hist[i]))

(***************************************************************************)
(* Specifications                                                          *)
(***************************************************************************)

\* the calls a program can make on the bindings B with the arguments In
Step(B, In) ==
    \/ \E i \in B : NewDefault(i)
    \/ \E i \in B : ToPathBuf(i)
    \/ \E i \in B : HasBase(i)
    \/ \E i \in B : ParentOf(i)
    \/ \E i, j \in B : \E a \in In.bases : WithBase(i, j, a)
    \/ \E i \in B : \E p \in In.prefixes : StripPrefixOf(i, p)
    \/ \E i \in B : \E s \in In.segments : PushDirRaw(i, s)
    \/ \E i \in B : \E d \in In.dirnames : PushDir(i, d)
    \/ \E i \in B : \E s \in In.segments : WithDirRaw(i, s)
    \/ \E i \in B : \E d \in In.dirnames : WithDir(i, d)
    \/ \E i \in B : \E s \in In.segments : WithFileRaw(i, s)
    \/ \E i \in B : \E f \in In.filenames : WithFile(i, f)
    \/ \E i \in B : ExtensionOf(i)
    \/ \E i \in B : FileStemOf(i)
    \/ \E i \in B : \E e \in In.extensions : SetExtensionOf(i, e)
    \/ \E i \in B : \E n \in In.names : SetFileNameOf(i, n)
    \/ \E i \in B : \E e \in In.extensions : WithExtension(i, e)

\* every argument
Inputs ==
    [segments |-> Segments, dirnames |-> DirnamesOf(Segments),
     filenames |-> FilenamesOf(Segments), extensions |-> Extensions,
     names |-> FileNames, prefixes |-> Prefixes, bases |-> AbsolutePathsOf(AbsInputs)]

\* a program with one binding
Next == Step({1}, Inputs)

Spec == Init /\ [][Next]_vars

\* "a", "/a" as segments, "b" as extension and name, "a" as prefix, "/a"
\* and "/b" as bases
RebaseInputs ==
    [segments |-> { <<"a">>, <<"/", "a">> },
     dirnames |-> DirnamesOf({ <<"a">> }),
     filenames |-> FilenamesOf({ <<"a">> }),
     extensions |-> { <<"b">> }, names |-> { <<"b">> }, prefixes |-> { <<"a">> },
     bases |-> AbsolutePathsOf({ <<"/", "a">>, <<"/", "b">> })]

\* a program with two bindings, with fewer arguments and shorter paths
NextRebase ==
    /\ Step(Bindings, RebaseInputs)
    /\ \A i \in Bindings : Len(vals'[i].path) <= MaxRebaseLen

SpecRebase == Init /\ [][NextRebase]_vars

\* "a", "/a" as segments, "a" as directory name, "a.b" as file name, "b" as
\* extension and name, "a" as prefix, "/b" as base
EditInputs ==
    [segments |-> { <<"a">>, <<"/", "a">> },
     dirnames |-> DirnamesOf({ <<"a">> }),
     filenames |-> FilenamesOf({ <<"a", ".", "b">> }),
     extensions |-> { <<"b">> }, names |-> { <<"b">> }, prefixes |-> { <<"a">> },
     bases |-> AbsolutePathsOf({ <<"/", "b">> })]

\* a program with one binding and fewer arguments
NextEdit == Step({1}, EditInputs)

SpecEdit == Init /\ [][NextEdit]_vars

\* the component constructors on every string of at most MaxInput characters
NextComponents ==
    \E s \in Strings(MaxInput) :
        \/ DirnameFromPath(s)
        \/ DirnameFromStr(s)
        \/ FilenameFromPath(s)
        \/ FilenameFromStr(s)
        \/ DirnameFromPathBuf(s)
        \/ DirnameFromPathBufRef(s)
        \/ FilenameFromPathBuf(s)
        \/ FilenameFromPathBufRef(s)
        \/ AbsolutePathFrom(s)

SpecComponents == Init /\ [][NextComponents]_vars

(***************************************************************************)
(* Vocabulary of the properties                                            *)
(***************************************************************************)

\* Path::join as the host defines it: the right side alone when it has a
\* root, otherwise the two sides with exactly one separator between them
HostJoin(a, b) ==
    IF b # <<>> /\ Head(b) = Sep THEN b
    ELSE IF a = <<>> THEN b
    ELSE IF a[Len(a)] = Sep THEN a \o b
    ELSE a \o <<Sep>> \o b

\* the host join of a sequence of segments, left to right
RECURSIVE JoinAll(_)
JoinAll(segs) ==
    IF segs = <<>> THEN <<>>
    ELSE HostJoin(JoinAll(SubSeq(segs, 1, Len(segs) - 1)), segs[Len(segs)])

\* the components of a path as (kind, text) pairs
Texts(p) == [i \in 1..Len(Components(p)) |-> <<Components(p)[i].kind, Components(p)[i].s>>]

\* p begins, component by component, with q
BeginsWith(p, q) ==
    /\ Len(Texts(q)) <= Len(Texts(p))
    /\ SubSeq(Texts(p), 1, Len(Texts(q))) = Texts(q)

\* p ends, component by component, with q
EndsWith(p, q) ==
    /\ Len(Texts(q)) <= Len(Texts(p))
    /\ SubSeq(Texts(p), Len(Texts(p)) - Len(Texts(q)) + 1, Len(Texts(p))) = Texts(q)

AllNormal(p) == \A i \in 1..Len(Texts(p)) : Texts(p)[i][1] = "Normal"

\* the part of e after its last ".", e itself when it has none
AfterLastDot(e) ==
    IF \E i \in 1..Len(e) : e[i] = Dot
    THEN SubSeq(e, (CHOOSE i \in 1..Len(e) : e[i] = Dot /\ \A j \in i + 1..Len(e) : e[j] # Dot) + 1, Len(e))
    ELSE e

DirOnly == {"push_dir", "push_dir_raw", "with_dir", "with_dir_raw", "with_file", "with_file_raw"}
FileOnly == {"extension", "file_stem", "set_extension", "set_file_name", "with_extension"}
Attach == {"with_file", "with_file_raw"}

\* the value the last call returned or left in place
Result == vals[last.dst]

(***************************************************************************)
(* C1  Typestate                                                           *)
(***************************************************************************)

C1_Calls ==
    /\ last.op = "default" => Result = Default
    /\ last.op \in DirOnly => last.pre.marker = DirMarker
    /\ last.op \in FileOnly => last.pre.marker = FileMarker
    /\ (last.dst # 0 /\ last.pre # NoValue /\ Result.marker # last.pre.marker) =>
            last.op \in Attach /\ last.pre.marker = DirMarker /\ Result.marker = FileMarker
    /\ (last.dst # 0 /\ last.pre.marker = FileMarker) => Result.marker = FileMarker

\* C1: a value starts as a Directory (the default); the only change of state is
\* Directory -> File, made by with_file / with_file_raw; whatever is derived
\* from a File value is a File value; the Directory-only operations are never
\* called on a File value and the File-only operations never on a Directory.
C1_Typestate ==
    /\ [] C1_Calls
    /\ [][\A i \in Bindings :
            vals[i].marker = FileMarker => vals'[i].marker \in {FileMarker, NoValue.marker}]_vars

\* a File value that has a base is renamed and is still a File value
C1_Witness ==
    /\ last.op = "set_file_name"
    /\ last.pre.marker = FileMarker
    /\ last.pre.base # <<>>
    /\ Result.marker = FileMarker
    /\ hist[1] = Rebased(Mixed)

(***************************************************************************)
(* C2  to_path_buf                                                         *)
(***************************************************************************)

\* C2: in every reachable state to_path_buf() is base joined with path, in that
\* order, under the host's join; the call changes nothing, and a second call on
\* the same value returns what the first returned.
C2_ToPathBuf ==
    /\ \A i \in Bindings :
          Bound(i) => to_path_buf(vals[i]) = HostJoin(vals[i].base, vals[i].path)
    /\ last.op = "to_path_buf" =>
          /\ last.out.val = HostJoin(last.pre.base, last.pre.path)
          /\ vals[last.slot] = last.pre
          /\ last.again # NoResult => last.again = last.out

\* a second consecutive call on a rebased value with a relative path
C2_Witness ==
    /\ last.op = "to_path_buf"
    /\ last.again # NoResult
    /\ last.pre.base # <<>>
    /\ last.pre.path # <<>>
    /\ ~IsAbsolute(last.pre.path)

(***************************************************************************)
(* C3  Round trip of validated pushes                                      *)
(***************************************************************************)

\* C3: after any sequence of validated Dirname pushes onto the default value and
\* one with_file of a validated Filename, to_path_buf() is the host join of the
\* pushed segments in push order followed by the file segment; a Filename of
\* several normal components contributes them all.
C3_RoundTrip ==
    \A i \in Bindings :
        (Bound(i) /\ IsFile(i) /\ hist[i].pure) =>
            /\ Len(hist[i].segs) >= 1
            /\ to_path_buf(vals[i]) = JoinAll(hist[i].segs)
            /\ AllNormal(hist[i].segs[Len(hist[i].segs)]) =>
                  EndsWith(to_path_buf(vals[i]), hist[i].segs[Len(hist[i].segs)])

\* two directories pushed, then the Filename a/b attached
C3_Witness ==
    /\ IsFile(1) /\ hist[1].pure
    /\ Len(hist[1].segs) = 2
    /\ hist[1].segs[1] # hist[1].segs[2]
    /\ hist[1].segs[2] = <<"a", "/", "b">>

(***************************************************************************)
(* C4  Rebasing (two bindings: SpecRebase)                                 *)
(***************************************************************************)

\* C4: v.with_base(A).to_path_buf() is A joined with v's relative path, for
\* whichever absolute path A is given; the call leaves v as it was, also when v
\* was itself produced by with_base.
C4_Rebase ==
    last.op = "with_base" =>
        /\ Result.base = last.arg
        /\ Result.path = last.pre.path
        /\ Result.marker = last.pre.marker
        /\ to_path_buf(Result) = HostJoin(last.arg, last.pre.path)
        /\ last.slot # last.dst => vals[last.slot] = last.pre

\* a File value that has a base is rebased onto another base, into the other
\* binding
C4_Witness ==
    /\ last.op = "with_base"
    /\ last.slot # last.dst
    /\ last.pre.marker = FileMarker
    /\ last.pre.path # <<>>
    /\ last.pre.base # <<>>
    /\ last.arg # last.pre.base
    /\ vals[last.slot] # Result

(***************************************************************************)
(* C5  strip_prefix and the base                                           *)
(***************************************************************************)

\* what strip_prefix leaves of the receiver, whatever to_path_buf makes of it
C5_Stripped ==
    /\ Result.base = last.pre.base
    /\ Result.marker = last.pre.marker
    /\ Texts(last.arg) \o Texts(Result.path) = Texts(last.pre.path)

\* C5 as claimed: for every v, A and p for which strip_prefix succeeds,
\* v.with_base(A).strip_prefix(p) has base A, v's state tag and v's path with p
\* removed from its front, so its to_path_buf() starts with A.
C5_Original ==
    (last.op = "strip_prefix" /\ last.out.tag = "Ok" /\ last.pre.base # <<>>) =>
        /\ C5_Stripped
        /\ BeginsWith(to_path_buf(Result), last.pre.base)

\* C5 as amended: ... its to_path_buf() is A joined with the stripped path; it
\* starts with A unless the stripped path has a root, which happens only when p
\* has no component and v's relative path is absolute, and then to_path_buf()
\* is that absolute path alone.
C5_Amended ==
    (last.op = "strip_prefix" /\ last.out.tag = "Ok" /\ last.pre.base # <<>>) =>
        /\ C5_Stripped
        /\ to_path_buf(Result) = HostJoin(last.pre.base, Result.path)
        /\ ~IsAbsolute(Result.path) => BeginsWith(to_path_buf(Result), last.pre.base)
        /\ IsAbsolute(Result.path) =>
              /\ Texts(last.arg) = <<>>
              /\ IsAbsolute(last.pre.path)
              /\ to_path_buf(Result) = Result.path

\* a rebased a/b stripped of a
C5_Witness ==
    /\ last.op = "strip_prefix" /\ last.out.tag = "Ok"
    /\ last.pre.base # <<>>
    /\ Texts(last.arg) # <<>>
    /\ Result.path # <<>>
    /\ Result.path # last.pre.path

(***************************************************************************)
(* C6  strip_prefix and its error                                          *)
(***************************************************************************)

\* C6: strip_prefix(p) returns the prefix-mismatch error exactly when the
\* relative path does not begin, component by component, with p, whatever the
\* base and the joined path are; on success base and state tag are kept.
C6_PrefixMismatch ==
    last.op = "strip_prefix" =>
        /\ last.out.tag \in {"Ok", "StripPrefixError"}
        /\ last.out.tag = "StripPrefixError" <=> ~BeginsWith(last.pre.path, last.arg)
        /\ last.out.tag = "Ok" =>
              /\ Result.base = last.pre.base
              /\ Result.marker = last.pre.marker

\* the error although the joined path does begin with p
C6_Witness ==
    /\ last.op = "strip_prefix"
    /\ last.out.tag = "StripPrefixError"
    /\ last.pre.base # <<>>
    /\ Texts(last.arg) # <<>>
    /\ BeginsWith(to_path_buf(last.pre), last.arg)

(***************************************************************************)
(* C7, C8  The component constructors (SpecComponents)                     *)
(***************************************************************************)

HasRoot(s) == Len(Texts(s)) > 0 /\ Texts(s)[1][1] = "RootDir"

DirnameOps ==
    {"Dirname::try_from(&Path)", "Dirname::try_from(&str)",
     "Dirname::try_from(PathBuf)", "Dirname::try_from(&PathBuf)"}
FilenameOps ==
    {"Filename::try_from(&Path)", "Filename::try_from(&str)",
     "Filename::try_from(PathBuf)", "Filename::try_from(&PathBuf)"}

C8_Absolute ==
    /\ last.op = "AbsolutePath::try_from" =>
          /\ last.out.tag = "AbsolutePathError" <=> ~HasRoot(last.arg)
          /\ last.out.tag = "Ok" <=> HasRoot(last.arg)
          /\ last.out.tag = "Ok" => last.out.val = last.arg
    /\ \A a \in AbsolutePathsOf(Strings(MaxInput)) : HasRoot(a)

\* an absolute input of two components accepted
C8_Witness ==
    /\ last.op = "AbsolutePath::try_from"
    /\ last.out.tag = "Ok"
    /\ Len(Texts(last.arg)) >= 2

(***************************************************************************)
(* C9  Extension round trip                                                *)
(***************************************************************************)

Some(s) == [some |-> TRUE, s |-> s]

\* C9 as claimed: for every File value v and every non-empty extension e without
\* separator, v.with_extension(e).extension() is e.
C9_Original ==
    (last.op = "with_extension" /\ last.arg # <<>>) => extension(Result) = Some(last.arg)

\* C9 as amended: ... when v's relative path ends in a file name (a normal
\* component), v.with_extension(e).extension() is the part of e after its last
\* "." (e itself when e has none); when it does not, with_extension leaves v
\* as it is and extension() is None.
C9_Amended ==
    (last.op = "with_extension" /\ last.arg # <<>>) =>
        IF FileName(last.pre.path).some
        THEN extension(Result) = Some(AfterLastDot(last.arg))
        ELSE Result = last.pre /\ extension(Result) = None

\* the extension of a file that had one is replaced
C9_Witness ==
    /\ last.op = "with_extension"
    /\ last.arg = <<"b">>
    /\ Extension(last.pre.path).some
    /\ Result.path # last.pre.path
    /\ extension(Result) = Some(last.arg)

(***************************************************************************)
(* C10  file_stem                                                          *)
(***************************************************************************)

\* C10: file_stem() succeeds on every reachable File value and returns the
\* final component of the relative path without its extension.
C10_FileStem ==
    last.op = "file_stem" =>
        /\ last.out.tag = "OsStr"
        /\ Len(Texts(last.pre.path)) >= 1
        /\ last.out.val \o (IF extension(last.pre).some THEN <<Dot>> \o extension(last.pre).s ELSE <<>>)
              = Texts(last.pre.path)[Len(Texts(last.pre.path))][2]

(***************************************************************************)
(* C11  set_file_name                                                      *)
(***************************************************************************)

\* the components of p before its final one
Leading(p) == SubSeq(Texts(p), 1, Len(Texts(p)) - 1)

\* C11: set_file_name(n) on a reachable File value replaces the
\* final component of the relative path entirely: afterwards the final
\* component is n, the components before the old final component are kept in
\* order, and base is unchanged.
C11_SetFileName ==
    last.op = "set_file_name" =>
        /\ Result.base = last.pre.base
        /\ Len(Texts(Result.path)) >= 1
        /\ Texts(Result.path)[Len(Texts(Result.path))] = <<"Normal", last.arg>>
        /\ Leading(Result.path) = Leading(last.pre.path)

(***************************************************************************)
(* C12  Edits compose with rebasing                                        *)
(***************************************************************************)

\* the values of the crate's example: data/posts/first.md, /home/blog/source
ExampleFile ==
    with_file(push_dir_raw(push_dir(Default, <<"d", "a", "t", "a">>),
                           <<"p", "o", "s", "t", "s">>),
              <<"f", "i", "r", "s", "t", ".", "m", "d">>)
ExampleBase ==
    <<"/", "h", "o", "m", "e", "/", "b", "l", "o", "g", "/", "s", "o", "u", "r", "c", "e">>
ExampleOutput ==
    <<"/", "h", "o", "m", "e", "/", "b", "l", "o", "g", "/", "s", "o", "u", "r", "c", "e", "/", "p", "o", "s", "t", "s", "/", "f", "i", "r", "s", "t", ".", "h", "t", "m", "l">>

\* with_base(a), then with_extension(e), then strip_prefix(p)
EditBased(v, a, e, p) == strip_prefix(with_extension(with_base(v, a), e), p)

\* with_extension(e), then strip_prefix(p), on v as it is
EditPlain(v, e, p) == strip_prefix(with_extension(v, e), p)

\* the example, with the base set first and with the base set last
ExampleBased == to_path_buf(EditBased(ExampleFile, ExampleBase, <<"h", "t", "m", "l">>, <<"d", "a", "t", "a">>).value)
ExamplePlain == to_path_buf(with_base(EditPlain(ExampleFile, <<"h", "t", "m", "l">>, <<"d", "a", "t", "a">>).value, ExampleBase))

\* C12: for a File value v, an absolute a, an extension e and a prefix p,
\* v.with_base(a).with_extension(e).strip_prefix(p) succeeds exactly when
\* v.with_extension(e).strip_prefix(p) does, its to_path_buf() is a joined with
\* the relative path of the latter, and it is the value that with_base(a)
\* applied last gives; data/posts/first.md with /home/blog/source, html and
\* data gives /home/blog/source/posts/first.html.  An edit of a value that
\* has a base gives the base joined with the edit of the relative path alone.
C12_Compose ==
    /\ \A i \in Bindings : \A e \in Extensions : \A p \in Prefixes :
          (Bound(i) /\ IsFile(i)) =>
              LET plain == EditPlain(vals[i], e, p) IN
              \A a \in Inputs.bases :
                  LET based == EditBased(vals[i], a, e, p) IN
                  /\ based.ok = plain.ok
                  /\ plain.ok =>
                        /\ to_path_buf(based.value) = HostJoin(a, plain.value.path)
                        /\ based.value = with_base(plain.value, a)
    /\ ExampleBased = ExampleOutput
    /\ ExamplePlain = ExampleOutput
    /\ (last.op = "with_extension" /\ last.pre.base # <<>>) =>
          to_path_buf(Result)
              = HostJoin(last.pre.base, with_extension([last.pre EXCEPT !.base = <<>>], last.arg).path)
    /\ (last.op = "strip_prefix" /\ last.out.tag = "Ok" /\ last.pre.base # <<>>) =>
          to_path_buf(Result)
              = HostJoin(last.pre.base, strip_prefix([last.pre EXCEPT !.base = <<>>], last.arg).value.path)

\* a file built from validated components below a directory, for which the
\* extension "b" and the prefix "a" give a different relative path
C12_Witness ==
    /\ IsFile(1) /\ hist[1].pure
    /\ Len(hist[1].segs) = 2
    /\ EditPlain(vals[1], <<"b">>, <<"a">>).ok
    /\ EditPlain(vals[1], <<"b">>, <<"a">>).value.path # vals[1].path
    /\ extension(EditBased(vals[1], <<"/", "b">>, <<"b">>, <<"a">>).value) = Some(<<"b">>)
    /\ Len(to_path_buf(EditBased(vals[1], <<"/", "b">>, <<"b">>, <<"a">>).value)) > 2

(***************************************************************************)
(* C13  AbsolutePath and Dirname                                           *)
(***************************************************************************)

\* C13 as stated: AbsolutePath construction of s succeeds exactly when s is
\* not (non-empty and not absolute), that is exactly when Dirname
\* construction of the same s fails.
C13_Original ==
    last.op = "AbsolutePath::try_from" =>
        /\ last.out.tag = "Ok" <=> ~(last.arg # <<>> /\ ~HasRoot(last.arg))
        /\ last.out.tag = "Ok" <=> ~DirnameTryFromPath(last.arg).ok

\* C13: AbsolutePath construction of s succeeds exactly when s has a root, and
\* then stores s.  For a non-empty s that is exactly when Dirname construction
\* of the same s fails; for the empty s both fail, AbsolutePath with
\* AbsolutePathError and Dirname with Empty.
C13_Amended ==
    last.op = "AbsolutePath::try_from" =>
        /\ last.out.tag = "Ok" <=> HasRoot(last.arg)
        /\ last.out.tag # "Ok" <=> last.out.tag = "AbsolutePathError"
        /\ last.out.tag = "Ok" => last.out.val = last.arg
        /\ last.arg # <<>> =>
              /\ last.out.tag = "Ok" <=> ~DirnameTryFromPath(last.arg).ok
              /\ last.out.tag = "Ok" <=> ~DirnameTryFromStr(last.arg).ok
        /\ last.arg = <<>> =>
              /\ last.out.tag = "AbsolutePathError"
              /\ DirnameTryFromPath(last.arg) = Err("Empty")
              /\ DirnameTryFromStr(last.arg) = Err("Empty")

\* the empty string is refused as an AbsolutePath, and is no Dirname either
C13_Witness ==
    /\ last.op = "AbsolutePath::try_from"
    /\ last.arg = <<>>
    /\ last.out.tag = "AbsolutePathError"
    /\ ~DirnameTryFromPath(last.arg).ok

(***************************************************************************)
(* C14  The relative path stays relative                                   *)
(***************************************************************************)

\* the operations that are not raw and give a value
NonRaw ==
    {"push_dir", "with_dir", "with_file", "with_base", "strip_prefix",
     "set_extension", "with_extension", "set_file_name"}

\* C14: in every state reached from the default value by operations other than
\* the raw ones (push_dir, with_dir and with_file with validated components,
\* with_base, strip_prefix, set_extension, with_extension, set_file_name) the
\* relative path has no root, so to_path_buf() begins with base and, once
\* with_base was applied, is absolute.  Stated by induction: the default value
\* has a relative path without root, each of these operations gives a value
\* without root from a value without root, and a value without root has a
\* to_path_buf() that begins with its base.
C14_Relative ==
    /\ last.op = "default" => ~HasRoot(Result.path)
    /\ (last.op \in NonRaw /\ last.dst # 0 /\ ~HasRoot(last.pre.path)) => ~HasRoot(Result.path)
    /\ \A i \in Bindings :
          (Bound(i) /\ ~HasRoot(vals[i].path)) =>
              /\ BeginsWith(to_path_buf(vals[i]), vals[i].base)
              /\ hist[i].based => HasRoot(to_path_buf(vals[i]))

(***************************************************************************)
(* C15  Frame of base                                                      *)
(***************************************************************************)

\* the operations said to leave base alone
BaseKeeping ==
    {"push_dir", "push_dir_raw", "with_dir", "with_dir_raw", "with_file", "with_file_raw",
     "set_extension", "set_file_name", "with_extension", "strip_prefix"}

\* C15: push_dir, push_dir_raw, with_dir, with_dir_raw, with_file,
\* with_file_raw, set_extension, set_file_name, with_extension and a successful
\* strip_prefix leave base exactly as it was; with_base is the only operation
\* after which base differs, and its result has the receiver's path and tag
\* and the given base.
C15_Frame ==
    /\ (last.op \in BaseKeeping /\ last.dst # 0) => Result.base = last.pre.base
    /\ (last.dst # 0 /\ last.pre # NoValue /\ Result.base # last.pre.base) => last.op = "with_base"
    /\ last.op = "with_base" =>
          /\ Result.base = last.arg
          /\ Result.path = last.pre.path
          /\ Result.marker = last.pre.marker

\* a file is attached to a directory that has a base
C15_Witness ==
    /\ last.op = "with_file_raw"
    /\ last.pre.base # <<>>
    /\ Result.base = last.pre.base
    /\ Result.path # last.pre.path

(***************************************************************************)
(* C16  has_base                                                           *)
(***************************************************************************)

\* C16: has_base() is true exactly when base has at least one component: it
\* is false for the default value and for every value derived from it without
\* with_base, and true for the result of with_base and for every value
\* derived from one afterwards.
C16_HasBase ==
    /\ last.op = "has_base" =>
          /\ last.out.tag \in {"true", "false"}
          /\ last.out.tag = "true" <=> Len(Texts(last.pre.base)) >= 1
          /\ last.out.tag = "true" <=> hist[last.slot].based
    /\ last.op = "default" => ~has_base(Result)
    /\ last.op = "with_base" => has_base(Result)
    /\ \A i \in Bindings : Bound(i) => (has_base(vals[i]) <=> hist[i].based)

\* has_base() on a file derived from a value that was given the base "/"
C16_Witness ==
    /\ last.op = "has_base"
    /\ last.out.tag = "true"
    /\ last.pre.marker = FileMarker
    /\ last.pre.base = <<"/">>
    /\ last.pre.path # <<>>
    /\ hist[1].based

(***************************************************************************)
(* C17  Raw segments with a root                                           *)
(***************************************************************************)

RawOps == {"push_dir_raw", "with_dir_raw", "with_file_raw"}

C18_Siblings ==
    /\ last.op = "with_dir" =>
          Result = push_dir(last.pre, last.arg) /\ Result = with_dir_raw(last.pre, last.arg)
    /\ last.op = "push_dir" =>
          Result = with_dir(last.pre, last.arg) /\ Result = push_dir_raw(last.pre, last.arg)
    /\ last.op = "with_dir_raw" => Result = push_dir_raw(last.pre, last.arg)
    /\ last.op = "push_dir_raw" => Result = with_dir_raw(last.pre, last.arg)
    /\ last.op = "with_file" => Result = with_file_raw(last.pre, last.arg)
    /\ last.op = "with_extension" => Result = set_extension(last.pre, last.arg)
    /\ last.op = "set_extension" => Result = with_extension(last.pre, last.arg)

\* with_extension replaces the extension of a file that has a base, as
\* set_extension does
C18_Witness ==
    /\ last.op = "with_extension"
    /\ last.arg # <<>>
    /\ last.pre.base # <<>>
    /\ Extension(last.pre.path).some
    /\ Result.path # last.pre.path
    /\ Result = set_extension(last.pre, last.arg)

(***************************************************************************)
(* C19  The conversions agree                                              *)
(***************************************************************************)

\* what a caller sees of a conversion's result
Outcome(r) == [tag |-> IF r.ok THEN "Ok" ELSE r.err, val |-> r.name]

\* C19: for every input s, Dirname (and Filename) construction from s as
\* &str, as PathBuf, as &PathBuf and as &Path has one outcome: the same success
\* with the same stored path, or the same error; the test of the string for
\* emptiness made by the &str conversions agrees with the test for a first
\* component made by the &Path conversions.
C19_Conversions ==
    /\ last.op \in DirnameOps =>
          /\ last.out = Outcome(DirnameTryFromPath(last.arg))
          /\ last.out = Outcome(DirnameTryFromStr(last.arg))
          /\ last.out = Outcome(DirnameTryFromPathBuf(last.arg))
          /\ last.out = Outcome(DirnameTryFromPathBufRef(last.arg))
    /\ last.op \in FilenameOps =>
          /\ last.out = Outcome(FilenameTryFromPath(last.arg))
          /\ last.out = Outcome(FilenameTryFromStr(last.arg))
          /\ last.out = Outcome(FilenameTryFromPathBuf(last.arg))
          /\ last.out = Outcome(FilenameTryFromPathBufRef(last.arg))
    /\ last.op \in DirnameOps \cup FilenameOps =>
          (Len(last.arg) = 0 <=> Len(Components(last.arg)) = 0)

\* Filename::try_from("/a") and Filename::try_from(PathBuf::from("/a"))
C19_Witness ==
    /\ last.op = "Filename::try_from(PathBuf)"
    /\ last.arg = <<"/", "a">>
    /\ last.out.tag = "HasRoot"
    /\ Outcome(FilenameTryFromStr(last.arg)) = last.out

====
